---- MODULE Spec2Model ----
(***************************************************************************)
(* Model of src/lib.rs: the CompactSize / Txid / OutPoint / Script /       *)
(* TransactionInput / BitcoinTransaction codec.                            *)
(*                                                                         *)
(* Numbers.  TLC integers are 32 bits wide, so a u64 is kept as four       *)
(* 16-bit limbs, most significant first (<<l3, l2, l1, l0>>), and a u32 as *)
(* two (<<l1, l0>>).  usize is 64 bits wide (a 64-bit target).  Byte       *)
(* buffers are sequences of 0..255; Rust index i is TLA+ index i + 1.      *)
(*                                                                         *)
(* Builds.  `offset + len` on usize panics when overflow checks are        *)
(* compiled in (debug profile) and wraps when they are not (release        *)
(* profile); overflow_checks is the profile of the build under test.       *)
(* Vec::with_capacity is modelled up to its capacity check; below that     *)
(* limit the allocator is taken to grant the request.                      *)
(***************************************************************************)
EXTENDS Integers, Sequences, FiniteSets, TLC

VARIABLES kind, val, buf, origin, res, prev, overflow_checks

vars == <<kind, val, buf, origin, res, prev, overflow_checks>>

---------------------------------------------------------------------------
(* Bounds of the explored inputs *)

MaxScriptLen  == 2      \* short script_sig lengths 0..MaxScriptLen
LongScriptLen == 253    \* one script long enough for a 0xFD length prefix
MaxInputs     == 2      \* inputs per transaction 0..MaxInputs
MaxRawPayload == 9      \* bytes after the first byte of a raw CompactSize
MaxTailLen    == 2      \* bytes appended after an encoding

(* Program constants *)

TxidLen      == 32      \* [u8; 32]
OutPointLen  == 36      \* txid + vout
InputElemSize == 64     \* size_of::<TransactionInput>() on a 64-bit target

---------------------------------------------------------------------------
(* Results: Ok((value, used)), Err(BitcoinError), or a panic of the build *)

NoValue == [none |-> TRUE]

Ok(v, n) == [tag |-> "Ok", value |-> v, used |-> n, err |-> "none"]

Err(e) == [tag |-> "Err", value |-> NoValue, used |-> 0, err |-> e]

Panic(msg) == [tag |-> "Panic", value |-> NoValue, used |-> 0, err |-> msg]

NoResult == [tag |-> "None", value |-> NoValue, used |-> 0, err |-> "none"]

InsufficientBytes == "InsufficientBytes"

---------------------------------------------------------------------------
(* Slices *)

At(bytes, i) == bytes[i + 1]

Slice(bytes, from, to) == SubSeq(bytes, from + 1, to)

SliceFrom(bytes, from) == SubSeq(bytes, from + 1, Len(bytes))

---------------------------------------------------------------------------
(* Integer conversions *)

u16_to_le_bytes(l) == <<l % 256, l \div 256>>

u32_to_le_bytes(v) == u16_to_le_bytes(v[2]) \o u16_to_le_bytes(v[1])

u64_to_le_bytes(v) ==
    u16_to_le_bytes(v[4]) \o u16_to_le_bytes(v[3]) \o
    u16_to_le_bytes(v[2]) \o u16_to_le_bytes(v[1])

u16_from_le_bytes(b) == b[1] + 256 * b[2]

u32_from_le_bytes(b) ==
    <<u16_from_le_bytes(<<b[3], b[4]>>), u16_from_le_bytes(<<b[1], b[2]>>)>>

u64_from_le_bytes(b) ==
    <<u16_from_le_bytes(<<b[7], b[8]>>), u16_from_le_bytes(<<b[5], b[6]>>),
      u16_from_le_bytes(<<b[3], b[4]>>), u16_from_le_bytes(<<b[1], b[2]>>)>>

\* `x as u64` for x: u8 or u16
small_as_u64(x) == <<0, 0, 0, x>>

\* `x as u64` for x: u32
u32_as_u64(v) == <<0, 0, v[1], v[2]>>

\* `x as u8`, `x as u16`, `x as u32` for x: u64 (truncating casts)
u64_as_u8(v) == v[4] % 256

u64_as_u16(v) == v[4]

u64_as_u32(v) == <<v[3], v[4]>>

\* `n as u64` for a length n: usize
usize_as_u64(n) == <<0, 0, n \div 65536, n % 65536>>

\* a <= b on u64
u64_le(a, b) ==
    \/ a[1] < b[1]
    \/ a[1] = b[1] /\ a[2] < b[2]
    \/ a[1] = b[1] /\ a[2] = b[2] /\ a[3] < b[3]
    \/ a[1] = b[1] /\ a[2] = b[2] /\ a[3] = b[3] /\ a[4] <= b[4]

\* a u64/usize that is small enough to be a TLC integer
Fits(v) == v[1] = 0 /\ v[2] = 0 /\ v[3] < 16384

ToNat(v) == v[3] * 65536 + v[4]

\* n < v for a small n and a u64/usize v
LtNat(n, v) == ~Fits(v) \/ n < ToNat(v)

\* offset + len on usize: the wrapped sum and whether it overflowed
usize_add(offset, len) ==
    LET s0 == len[4] + offset
        s1 == len[3] + (s0 \div 65536)
        s2 == len[2] + (s1 \div 65536)
        s3 == len[1] + (s2 \div 65536)
    IN [value    |-> <<s3 % 65536, s2 % 65536, s1 % 65536, s0 % 65536>>,
        overflow |-> s3 \div 65536 > 0]

---------------------------------------------------------------------------
(* CompactSize *)

CompactSize_new(value) == [value |-> value]

\* variant: the one-byte form stops at 251 (`<` for `<=`)
CompactSize_to_bytes_strict(self) ==
    IF u64_le(self.value, <<0, 0, 0, 251>>)
    THEN <<u64_as_u8(self.value)>>
    ELSE IF u64_le(self.value, <<0, 0, 0, 65535>>)
    THEN <<253>> \o u16_to_le_bytes(u64_as_u16(self.value))
    ELSE IF u64_le(self.value, <<0, 0, 65535, 65535>>)
    THEN <<254>> \o u32_to_le_bytes(u64_as_u32(self.value))
    ELSE <<255>> \o u64_to_le_bytes(self.value)

CompactSize_to_bytes(self) ==
    IF u64_le(self.value, <<0, 0, 0, 252>>)
    THEN <<u64_as_u8(self.value)>>
    ELSE IF u64_le(self.value, <<0, 0, 0, 65535>>)
    THEN <<253>> \o u16_to_le_bytes(u64_as_u16(self.value))
    ELSE IF u64_le(self.value, <<0, 0, 65535, 65535>>)
    THEN <<254>> \o u32_to_le_bytes(u64_as_u32(self.value))
    ELSE <<255>> \o u64_to_le_bytes(self.value)

\* variant: a 0xFD form holding a value below 253 is rejected
CompactSize_from_bytes_minimal(bytes) ==
    IF Len(bytes) = 0
    THEN Err(InsufficientBytes)
    ELSE LET first_byte == At(bytes, 0) IN
         IF first_byte <= 252
         THEN Ok(CompactSize_new(small_as_u64(first_byte)), 1)
         ELSE IF first_byte = 253
         THEN IF Len(bytes) < 3
              THEN Err(InsufficientBytes)
              ELSE IF u16_from_le_bytes(Slice(bytes, 1, 3)) < 253
              THEN Err("InvalidFormat")
              ELSE Ok(CompactSize_new(small_as_u64(
                          u16_from_le_bytes(Slice(bytes, 1, 3)))), 3)
         ELSE IF first_byte = 254
         THEN IF Len(bytes) < 5
              THEN Err(InsufficientBytes)
              ELSE Ok(CompactSize_new(u32_as_u64(
                          u32_from_le_bytes(Slice(bytes, 1, 5)))), 5)
         ELSE IF Len(bytes) < 9
              THEN Err(InsufficientBytes)
              ELSE Ok(CompactSize_new(u64_from_le_bytes(Slice(bytes, 1, 9))), 9)

CompactSize_from_bytes(bytes) ==
    IF Len(bytes) = 0
    THEN Err(InsufficientBytes)
    ELSE LET first_byte == At(bytes, 0) IN
         IF first_byte <= 252
         THEN Ok(CompactSize_new(small_as_u64(first_byte)), 1)
         ELSE IF first_byte = 253
         THEN IF Len(bytes) < 3
              THEN Err(InsufficientBytes)
              ELSE Ok(CompactSize_new(small_as_u64(
                          u16_from_le_bytes(Slice(bytes, 1, 3)))), 3)
         ELSE IF first_byte = 254
         THEN IF Len(bytes) < 5
              THEN Err(InsufficientBytes)
              ELSE Ok(CompactSize_new(u32_as_u64(
                          u32_from_le_bytes(Slice(bytes, 1, 5)))), 5)
         ELSE IF Len(bytes) < 9
              THEN Err(InsufficientBytes)
              ELSE Ok(CompactSize_new(u64_from_le_bytes(Slice(bytes, 1, 9))), 9)

---------------------------------------------------------------------------
(* Txid and its textual form (hex::encode / hex::decode) *)

HexDigits == <<"0", "1", "2", "3", "4", "5", "6", "7",
               "8", "9", "a", "b", "c", "d", "e", "f">>

UpperDigits == <<"0", "1", "2", "3", "4", "5", "6", "7",
                 "8", "9", "A", "B", "C", "D", "E", "F">>

IsHexChar(c) == \E d \in 1..16 : c = HexDigits[d] \/ c = UpperDigits[d]

HexVal(c) == (CHOOSE d \in 1..16 : c = HexDigits[d] \/ c = UpperDigits[d]) - 1

hex_encode(data) ==
    [i \in 1..(2 * Len(data)) |->
        IF i % 2 = 1
        THEN HexDigits[(data[(i + 1) \div 2] \div 16) + 1]
        ELSE HexDigits[(data[i \div 2] % 16) + 1]]

hex_decode(text) ==
    IF Len(text) % 2 # 0
    THEN Err("OddLength")
    ELSE IF \E i \in 1..Len(text) : ~IsHexChar(text[i])
    THEN Err("InvalidHexCharacter")
    ELSE Ok([i \in 1..(Len(text) \div 2) |->
                16 * HexVal(text[2 * i - 1]) + HexVal(text[2 * i])], Len(text))

Txid(raw) == [raw |-> raw]

\* variant: the bytes are written in reversed (display) order
Txid_serialize_reversed(self) ==
    hex_encode([i \in 1..Len(self.raw) |-> self.raw[Len(self.raw) + 1 - i]])

Txid_serialize(self) == hex_encode(self.raw)

Txid_deserialize(hex_string) ==
    LET bytes == hex_decode(hex_string) IN
    IF bytes.tag # "Ok"
    THEN Err("custom")
    ELSE IF Len(bytes.value) # TxidLen
    THEN Err("custom")
    ELSE Ok(Txid(bytes.value), 0)

---------------------------------------------------------------------------
(* OutPoint *)

OutPoint_new(txid, vout) == [txid |-> Txid(txid), vout |-> vout]

OutPoint_to_bytes(self) == self.txid.raw \o u32_to_le_bytes(self.vout)

OutPoint_from_bytes(bytes) ==
    IF Len(bytes) < OutPointLen
    THEN Err(InsufficientBytes)
    ELSE Ok(OutPoint_new(Slice(bytes, 0, 32),
                         u32_from_le_bytes(Slice(bytes, 32, 36))), 36)

---------------------------------------------------------------------------
(* Script *)

Script_new(bytes) == [bytes |-> bytes]

Script_to_bytes(self) ==
    CompactSize_to_bytes(CompactSize_new(usize_as_u64(Len(self.bytes))))
        \o self.bytes

\* variant: the whole buffer is reported as consumed
Script_from_bytes_greedy(bytes) ==
    LET prefix == CompactSize_from_bytes(bytes) IN
    IF prefix.tag # "Ok"
    THEN prefix
    ELSE LET offset == prefix.used
             len    == prefix.value.value
             sum    == usize_add(offset, len)
         IN IF sum.overflow /\ overflow_checks
            THEN Panic("attempt to add with overflow")
            ELSE IF LtNat(Len(bytes), sum.value)
            THEN Err(InsufficientBytes)
            ELSE IF ToNat(sum.value) < offset
            THEN Panic("slice index starts after its end")
            ELSE Ok(Script_new(Slice(bytes, offset, ToNat(sum.value))),
                    Len(bytes))

Script_from_bytes(bytes) ==
    LET prefix == CompactSize_from_bytes(bytes) IN
    IF prefix.tag # "Ok"
    THEN prefix
    ELSE LET offset == prefix.used
             len    == prefix.value.value
             sum    == usize_add(offset, len)
         IN IF sum.overflow /\ overflow_checks
            THEN Panic("attempt to add with overflow")
            ELSE IF LtNat(Len(bytes), sum.value)
            THEN Err(InsufficientBytes)
            ELSE IF ToNat(sum.value) < offset
            THEN Panic("slice index starts after its end")
            ELSE Ok(Script_new(Slice(bytes, offset, ToNat(sum.value))),
                    ToNat(sum.value))

---------------------------------------------------------------------------
(* TransactionInput *)

TransactionInput_new(previous_output, script_sig, sequence) ==
    [previous_output |-> previous_output,
     script_sig      |-> script_sig,
     sequence        |-> sequence]

TransactionInput_to_bytes(self) ==
    OutPoint_to_bytes(self.previous_output)
        \o Script_to_bytes(self.script_sig)
        \o u32_to_le_bytes(self.sequence)

\* variant: the script is decoded from the start of the buffer, not from
\* the slice after the outpoint
TransactionInput_from_bytes_noslice(bytes) ==
    LET outpoint == OutPoint_from_bytes(bytes) IN
    IF outpoint.tag # "Ok"
    THEN outpoint
    ELSE LET offset1    == outpoint.used
             script_sig == Script_from_bytes(bytes)
         IN IF script_sig.tag # "Ok"
            THEN script_sig
            ELSE LET total_offset == offset1 + script_sig.used IN
                 IF Len(bytes) < total_offset + 4
                 THEN Err(InsufficientBytes)
                 ELSE Ok(TransactionInput_new(
                            outpoint.value, script_sig.value,
                            u32_from_le_bytes(
                                Slice(bytes, total_offset, total_offset + 4))),
                         total_offset + 4)

\* variant: the length check before the sequence forgets its 4 bytes, so
\* the read of the sequence can run past the buffer
TransactionInput_from_bytes_nocheck(bytes) ==
    LET outpoint == OutPoint_from_bytes(bytes) IN
    IF outpoint.tag # "Ok"
    THEN outpoint
    ELSE LET offset1    == outpoint.used
             script_sig == Script_from_bytes(SliceFrom(bytes, offset1))
         IN IF script_sig.tag # "Ok"
            THEN script_sig
            ELSE LET total_offset == offset1 + script_sig.used IN
                 IF Len(bytes) < total_offset
                 THEN Err(InsufficientBytes)
                 ELSE IF Len(bytes) < total_offset + 4
                 THEN Panic("index out of bounds")
                 ELSE Ok(TransactionInput_new(
                            outpoint.value, script_sig.value,
                            u32_from_le_bytes(
                                Slice(bytes, total_offset, total_offset + 4))),
                         total_offset + 4)

TransactionInput_from_bytes(bytes) ==
    LET outpoint == OutPoint_from_bytes(bytes) IN
    IF outpoint.tag # "Ok"
    THEN outpoint
    ELSE LET offset1    == outpoint.used
             script_sig == Script_from_bytes(SliceFrom(bytes, offset1))
         IN IF script_sig.tag # "Ok"
            THEN script_sig
            ELSE LET total_offset == offset1 + script_sig.used IN
                 IF Len(bytes) < total_offset + 4
                 THEN Err(InsufficientBytes)
                 ELSE Ok(TransactionInput_new(
                            outpoint.value, script_sig.value,
                            u32_from_le_bytes(
                                Slice(bytes, total_offset, total_offset + 4))),
                         total_offset + 4)

---------------------------------------------------------------------------
(* BitcoinTransaction *)

BitcoinTransaction_new(version, inputs, lock_time) ==
    [version |-> version, inputs |-> inputs, lock_time |-> lock_time]

RECURSIVE EncodeInputs(_)
EncodeInputs(inputs) ==
    IF inputs = <<>>
    THEN <<>>
    ELSE TransactionInput_to_bytes(Head(inputs)) \o EncodeInputs(Tail(inputs))

\* variant: the inputs are written last to first
BitcoinTransaction_to_bytes_reversed(self) ==
    u32_to_le_bytes(self.version)
        \o CompactSize_to_bytes(CompactSize_new(usize_as_u64(Len(self.inputs))))
        \o EncodeInputs([i \in 1..Len(self.inputs) |->
                            self.inputs[Len(self.inputs) + 1 - i]])
        \o u32_to_le_bytes(self.lock_time)

BitcoinTransaction_to_bytes(self) ==
    u32_to_le_bytes(self.version)
        \o CompactSize_to_bytes(CompactSize_new(usize_as_u64(Len(self.inputs))))
        \o EncodeInputs(self.inputs)
        \o u32_to_le_bytes(self.lock_time)

\* Vec::with_capacity(count): count * size_of::<TransactionInput>() must not
\* exceed isize::MAX = 2^63 - 1, i.e. count < 2^63 / 64 = 2^57 = 512 * 2^48
CapacityOverflow(count) == count[1] >= 32768 \div InputElemSize

\* for _ in 0..count { decode one input at offset; push; advance }
RECURSIVE DecodeInputs(_, _, _, _, _)
DecodeInputs(bytes, count, i, inputs, offset) ==
    IF ~LtNat(i, count)
    THEN Ok(inputs, offset)
    ELSE LET r == TransactionInput_from_bytes(SliceFrom(bytes, offset)) IN
         IF r.tag # "Ok"
         THEN r
         ELSE DecodeInputs(bytes, count, i + 1,
                           Append(inputs, r.value), offset + r.used)

\* variant: bytes left after lock_time are an error
BitcoinTransaction_from_bytes_exact(bytes) ==
    IF Len(bytes) < 4
    THEN Err(InsufficientBytes)
    ELSE LET version  == u32_from_le_bytes(Slice(bytes, 0, 4))
             count_cs == CompactSize_from_bytes(SliceFrom(bytes, 4))
         IN IF count_cs.tag # "Ok"
            THEN count_cs
            ELSE LET count == count_cs.value.value IN
                 IF CapacityOverflow(count)
                 THEN Panic("capacity overflow")
                 ELSE LET loop == DecodeInputs(bytes, count, 0, <<>>,
                                               4 + count_cs.used)
                      IN IF loop.tag # "Ok"
                         THEN loop
                         ELSE LET offset == loop.used IN
                              IF Len(bytes) < offset + 4
                              THEN Err(InsufficientBytes)
                              ELSE IF Len(bytes) > offset + 4
                              THEN Err("InvalidFormat")
                              ELSE Ok(BitcoinTransaction_new(
                                         version, loop.value,
                                         u32_from_le_bytes(
                                             Slice(bytes, offset, offset + 4))),
                                      offset + 4)

BitcoinTransaction_from_bytes(bytes) ==
    IF Len(bytes) < 4
    THEN Err(InsufficientBytes)
    ELSE LET version  == u32_from_le_bytes(Slice(bytes, 0, 4))
             count_cs == CompactSize_from_bytes(SliceFrom(bytes, 4))
         IN IF count_cs.tag # "Ok"
            THEN count_cs
            ELSE LET count == count_cs.value.value IN
                 IF CapacityOverflow(count)
                 THEN Panic("capacity overflow")
                 ELSE LET loop == DecodeInputs(bytes, count, 0, <<>>,
                                               4 + count_cs.used)
                      IN IF loop.tag # "Ok"
                         THEN loop
                         ELSE LET offset == loop.used IN
                              IF Len(bytes) < offset + 4
                              THEN Err(InsufficientBytes)
                              ELSE Ok(BitcoinTransaction_new(
                                         version, loop.value,
                                         u32_from_le_bytes(
                                             Slice(bytes, offset, offset + 4))),
                                      offset + 4)

---------------------------------------------------------------------------
(* Inputs explored *)

Kinds == {"CompactSize", "Txid", "OutPoint", "Script",
          "TransactionInput", "BitcoinTransaction"}

Pattern(a, b, k, n) == [i \in 1..n |-> IF i = k THEN a ELSE b]

LimbSamples == {0, 1, 5, 252, 253, 255, 256, 511, 512, 65535}

U64Samples ==
    { [j \in 1..4 |-> IF j < i THEN 0 ELSE IF j = i THEN hi ELSE lo] :
        i \in 1..4, hi \in LimbSamples, lo \in {0, 65535} }
    \cup { <<258, 772, 1286, 1800>> }

U32Samples == { <<0, 0>>, <<0, 1>>, <<1, 0>>, <<65535, 65535>>, <<4660, 22136>> }

TxidSamples ==
    { Pattern(a, b, k, TxidLen) : a \in {0, 171, 255}, b \in {0, 28}, k \in {1, 32} }

OutPointSamples ==
    { OutPoint_new(t, v) : t \in TxidSamples, v \in U32Samples }

ScriptLens == (0..MaxScriptLen) \cup {LongScriptLen}

ScriptSamples ==
    { Script_new(Pattern(a, 172, 1, n)) : a \in {106, 255}, n \in ScriptLens }

InputSamples ==
    { TransactionInput_new(OutPoint_new(Pattern(a, 28, 32, TxidLen), <<4660, 22136>>),
                           s, q) :
        a \in {0, 171}, s \in ScriptSamples, q \in {<<65535, 65534>>, <<0, 1>>} }

\* the inputs transactions are built from
TxInputSamples ==
    { TransactionInput_new(OutPoint_new(Pattern(a, 28, 1, TxidLen), <<0, a>>),
                           Script_new(Pattern(a, 172, 1, n)), <<65535, 65535>>) :
        a \in {0, 171}, n \in {0, MaxScriptLen} }

RECURSIVE SeqsUpTo(_, _)
SeqsUpTo(S, n) ==
    IF n = 0
    THEN { <<>> }
    ELSE SeqsUpTo(S, n - 1)
         \cup { Append(q, x) : q \in { q \in SeqsUpTo(S, n - 1) : Len(q) = n - 1 },
                               x \in S }

TransactionSamples ==
    { BitcoinTransaction_new(v, ins, l) :
        v \in {<<0, 1>>, <<4660, 22136>>},
        ins \in SeqsUpTo(TxInputSamples, MaxInputs),
        l \in {<<0, 0>>, <<65535, 65535>>} }

\* a first byte followed by k bytes: the shape of a CompactSize on the wire
RawCompact ==
    { <<>> } \cup
    { <<t>> \o Pattern(b1, b2, 1, k) :
        t \in {0, 5, 252, 253, 254, 255}, b1 \in {0, 5, 255}, b2 \in {0, 255},
        k \in 0..MaxRawPayload }

RawText ==
    { Pattern(c1, c2, k, n) :
        c1 \in {"0", "g", "F"}, c2 \in {"a", "7"}, k \in {1, 2},
        n \in {0, 2, 2 * TxidLen - 2, 2 * TxidLen - 1, 2 * TxidLen,
               2 * TxidLen + 1, 2 * TxidLen + 2} }

RawBufs(k) ==
    CASE k = "CompactSize"        -> RawCompact
      [] k = "Script"             -> RawCompact
      [] k = "Txid"               -> RawText
      [] k = "OutPoint"           ->
            { Pattern(a, 0, n, n) : a \in {1, 255},
                n \in {0, OutPointLen - 1, OutPointLen, OutPointLen + 1} }
      [] k = "TransactionInput"   ->
            { Pattern(171, 0, 1, OutPointLen) \o r : r \in RawCompact }
      [] k = "BitcoinTransaction" ->
            { Pattern(1, 0, 1, 4) \o r : r \in RawCompact }

Tails(k) ==
    IF k = "Txid"
    THEN SeqsUpTo({"0", "f"}, MaxTailLen)
    ELSE SeqsUpTo({0, 255}, MaxTailLen)

---------------------------------------------------------------------------
(* The state machine: a value is constructed and encoded, or a buffer is   *)
(* received; the buffer may be cut short or extended; it is decoded; the   *)
(* bytes after the consumed prefix may then be replaced and the buffer     *)
(* decoded again.                                                          *)

Init ==
    /\ kind \in Kinds
    /\ overflow_checks \in BOOLEAN
    /\ val = NoValue
    /\ buf = <<>>
    /\ origin = "none"
    /\ res = NoResult
    /\ prev = NoResult

Construct(k, v) ==
    /\ kind = k
    /\ origin = "none"
    /\ val' = v
    /\ origin' = "value"
    /\ UNCHANGED <<kind, buf, res, prev, overflow_checks>>

NewCompactSize == \E v \in U64Samples : Construct("CompactSize", CompactSize_new(v))

NewTxid == \E t \in TxidSamples : Construct("Txid", Txid(t))

NewOutPoint ==
    \E t \in TxidSamples, v \in U32Samples : Construct("OutPoint", OutPoint_new(t, v))

NewScript == \E s \in ScriptSamples : Construct("Script", Script_new(s.bytes))

NewTransactionInput ==
    \E i \in InputSamples :
        Construct("TransactionInput",
                  TransactionInput_new(i.previous_output, i.script_sig, i.sequence))

NewBitcoinTransaction ==
    \E t \in TransactionSamples :
        Construct("BitcoinTransaction",
                  BitcoinTransaction_new(t.version, t.inputs, t.lock_time))

Encode(k, bytes) ==
    /\ kind = k
    /\ origin = "value"
    /\ buf' = bytes
    /\ origin' = "enc"
    /\ UNCHANGED <<kind, val, res, prev, overflow_checks>>

EncodeCompactSize == Encode("CompactSize", CompactSize_to_bytes(val))

SerializeTxid == Encode("Txid", Txid_serialize(val))

EncodeOutPoint == Encode("OutPoint", OutPoint_to_bytes(val))

EncodeScript == Encode("Script", Script_to_bytes(val))

EncodeTransactionInput == Encode("TransactionInput", TransactionInput_to_bytes(val))

EncodeBitcoinTransaction ==
    Encode("BitcoinTransaction", BitcoinTransaction_to_bytes(val))

\* a caller hands over a buffer that no encoder of this program produced
Receive ==
    /\ origin = "none"
    /\ \E raw \in RawBufs(kind) : buf' = raw
    /\ origin' = "raw"
    /\ UNCHANGED <<kind, val, res, prev, overflow_checks>>

\* the encoding is cut to its first n bytes, n < its length
Truncate ==
    /\ origin = "enc"
    /\ res.tag = "None"
    /\ \E n \in 0..(Len(buf) - 1) : buf' = SubSeq(buf, 1, n)
    /\ origin' = "trunc"
    /\ UNCHANGED <<kind, val, res, prev, overflow_checks>>

\* bytes follow the encoding in the buffer
Extend ==
    /\ origin = "enc"
    /\ res.tag = "None"
    /\ \E t \in Tails(kind) \ { <<>> } : buf' = buf \o t
    /\ origin' = "ext"
    /\ UNCHANGED <<kind, val, res, prev, overflow_checks>>

Decode(k, result) ==
    /\ kind = k
    /\ origin \notin {"none", "value"}
    /\ res.tag = "None"
    /\ res' = result
    /\ UNCHANGED <<kind, val, buf, origin, prev, overflow_checks>>

DecodeCompactSize == Decode("CompactSize", CompactSize_from_bytes(buf))

DeserializeTxid == Decode("Txid", Txid_deserialize(buf))

DecodeOutPoint == Decode("OutPoint", OutPoint_from_bytes(buf))

DecodeScript == Decode("Script", Script_from_bytes(buf))

DecodeTransactionInput == Decode("TransactionInput", TransactionInput_from_bytes(buf))

DecodeBitcoinTransaction ==
    Decode("BitcoinTransaction", BitcoinTransaction_from_bytes(buf))

\* after a successful decode, the bytes past the consumed prefix are replaced
ChangeTail ==
    /\ kind # "Txid"
    /\ origin \in {"enc", "ext", "raw"}
    /\ res.tag = "Ok"
    /\ \E t \in Tails(kind) : buf' = SubSeq(buf, 1, res.used) \o t
    /\ prev' = res
    /\ res' = NoResult
    /\ origin' = "tail"
    /\ UNCHANGED <<kind, val, overflow_checks>>

Next ==
    \/ NewCompactSize
    \/ NewTxid
    \/ NewOutPoint
    \/ NewScript
    \/ NewTransactionInput
    \/ NewBitcoinTransaction
    \/ EncodeCompactSize
    \/ SerializeTxid
    \/ EncodeOutPoint
    \/ EncodeScript
    \/ EncodeTransactionInput
    \/ EncodeBitcoinTransaction
    \/ Receive
    \/ Truncate
    \/ Extend
    \/ DecodeCompactSize
    \/ DeserializeTxid
    \/ DecodeOutPoint
    \/ DecodeScript
    \/ DecodeTransactionInput
    \/ DecodeBitcoinTransaction
    \/ ChangeTail

Spec == Init /\ [][Next]_vars

---------------------------------------------------------------------------
(* Properties *)

Decoded == res.tag # "None"

Binary == kind # "Txid"

\* C1: round trip - decoding the encoding of a value V of any binary entity
\* succeeds with exactly (V, length of the encoding); a transaction's inputs
\* come back in their original order.
C1_RoundTrip ==
    (Binary /\ origin = "enc" /\ Decoded) => res = Ok(val, Len(buf))

C1_Witness ==
    /\ kind = "BitcoinTransaction"
    /\ origin = "enc"
    /\ res.tag = "Ok"
    /\ Len(val.inputs) = 2
    /\ val.inputs[1] # val.inputs[2]
    /\ res.value.inputs = val.inputs

\* byte i (0-based, least significant first) of a u64
C2_Byte(v, i) ==
    IF i % 2 = 0 THEN v[4 - (i \div 2)] % 256 ELSE v[4 - (i \div 2)] \div 256

C2_Expected(v) ==
    IF v[1] = 0 /\ v[2] = 0 /\ v[3] = 0 /\ v[4] <= 252
    THEN <<v[4]>>
    ELSE IF v[1] = 0 /\ v[2] = 0 /\ v[3] = 0
    THEN <<253>> \o [i \in 1..2 |-> C2_Byte(v, i - 1)]
    ELSE IF v[1] = 0 /\ v[2] = 0
    THEN <<254>> \o [i \in 1..4 |-> C2_Byte(v, i - 1)]
    ELSE <<255>> \o [i \in 1..8 |-> C2_Byte(v, i - 1)]

\* C2: CompactSize::to_bytes picks the width by value range: <= 252 one
\* byte; <= 65535 0xFD + 2 LE bytes; <= 4294967295 0xFE + 4 LE bytes; above
\* 0xFF + 8 LE bytes; with the boundary encodings the spec lists.
C2_WidthByRange ==
    (kind = "CompactSize" /\ origin = "enc") =>
        /\ buf = C2_Expected(val.value)
        /\ val.value = <<0, 0, 0, 0>>     => buf = <<0>>
        /\ val.value = <<0, 0, 0, 252>>   => buf = <<252>>
        /\ val.value = <<0, 0, 0, 253>>   => buf = <<253, 253, 0>>
        /\ val.value = <<0, 0, 0, 65535>> => buf = <<253, 255, 255>>
        /\ val.value = <<0, 0, 1, 0>>     => buf = <<254, 0, 0, 1, 0>>
        /\ val.value = <<0, 1, 0, 0>>     => buf = <<255, 0, 0, 0, 0, 1, 0, 0, 0>>

C2_Witness ==
    /\ kind = "CompactSize"
    /\ origin = "enc"
    /\ val.value = <<0, 1, 0, 0>>
    /\ buf = <<255, 0, 0, 0, 0, 1, 0, 0, 0>>

\* C3: truncation safety - decoding the first n bytes of a valid encoding,
\* n less than its length, returns Err(InsufficientBytes): never Ok, never
\* an out-of-range failure.
C3_TruncationSafe ==
    (Binary /\ origin = "trunc" /\ Decoded) => res = Err(InsufficientBytes)

C3_Witness ==
    /\ kind = "BitcoinTransaction"
    /\ origin = "trunc"
    /\ Len(val.inputs) = 2
    /\ Len(buf) > 4 + 1 + OutPointLen + 1 + 4
    /\ res = Err(InsufficientBytes)

\* C4: Script::from_bytes, after a prefix of p bytes declaring length L,
\* returns Err(InsufficientBytes) whenever fewer than L bytes follow the
\* prefix, for every L of the u64 range; otherwise it returns the L bytes
\* after the prefix and consumed = p + L.
C4_ScriptLengthChecked ==
    (kind = "Script" /\ Decoded /\ CompactSize_from_bytes(buf).tag = "Ok") =>
        LET p == CompactSize_from_bytes(buf).used
            L == CompactSize_from_bytes(buf).value.value
        IN IF LtNat(Len(buf) - p, L)
           THEN res = Err(InsufficientBytes)
           ELSE res = Ok(Script_new(SubSeq(buf, p + 1, p + ToNat(L))),
                         p + ToNat(L))

\* C5: BitcoinTransaction::from_bytes returns a result rather than raising
\* for every buffer; it decodes exactly `count` inputs, and a count larger
\* than the inputs present ends in the failing input decode's error, with
\* no transaction returned.
C5_ReturnsResult ==
    (kind = "BitcoinTransaction" /\ Decoded /\ Len(buf) >= 4
        /\ CompactSize_from_bytes(SliceFrom(buf, 4)).tag = "Ok") =>
        LET count == CompactSize_from_bytes(SliceFrom(buf, 4)).value.value IN
        /\ res.tag \in {"Ok", "Err"}
        /\ res.tag = "Ok" => Fits(count) /\ Len(res.value.inputs) = ToNat(count)
        /\ res.tag = "Err" => res = Err(InsufficientBytes)

\* payload byte i (0-based) of a raw CompactSize with a w-byte payload
C6_PayByte(b, w, i) == IF i < w THEN b[i + 2] ELSE 0

C6_Value(b, w) ==
    [j \in 1..4 |-> C6_PayByte(b, w, 2 * (4 - j))
                    + 256 * C6_PayByte(b, w, 2 * (4 - j) + 1)]

C6_Width(first) ==
    IF first = 253 THEN 2 ELSE IF first = 254 THEN 4 ELSE 8

C6_Expected(b) ==
    IF Len(b) = 0
    THEN Err(InsufficientBytes)
    ELSE IF b[1] <= 252
    THEN Ok([value |-> <<0, 0, 0, b[1]>>], 1)
    ELSE IF Len(b) < 1 + C6_Width(b[1])
    THEN Err(InsufficientBytes)
    ELSE Ok([value |-> C6_Value(b, C6_Width(b[1]))], 1 + C6_Width(b[1]))

\* C6: CompactSize::from_bytes does not enforce minimal encoding: a buffer
\* starting 0xFD/0xFE/0xFF with at least 3/5/9 bytes decodes to the
\* little-endian value of its 2/4/8 payload bytes, consumed 3/5/9, however
\* small that value; Err(InsufficientBytes) only for an empty or too short
\* buffer.  [0xFD, 0x05, 0x00] decodes to 5 with 3 bytes consumed.
C6_NonMinimalAccepted ==
    (kind = "CompactSize" /\ Decoded) =>
        /\ res = C6_Expected(buf)
        /\ buf = <<253, 5, 0>> => res = Ok([value |-> <<0, 0, 0, 5>>], 3)

C6_Witness ==
    /\ kind = "CompactSize"
    /\ buf = <<253, 5, 0>>
    /\ res = Ok([value |-> <<0, 0, 0, 5>>], 3)

C7_PrefixWidth(n) ==
    IF n <= 252 THEN 1 ELSE IF n <= 65535 THEN 3 ELSE 5

RECURSIVE C7_InputsLen(_)
C7_InputsLen(inputs) ==
    IF inputs = <<>>
    THEN 0
    ELSE OutPointLen + C7_PrefixWidth(Len(Head(inputs).script_sig.bytes))
         + Len(Head(inputs).script_sig.bytes) + 4 + C7_InputsLen(Tail(inputs))

\* C7: trailing bytes are no error - for a valid encoding E of V and any
\* bytes T after it, from_bytes(E ++ T) = Ok((V, length(E))), the consumed
\* count being 4 + count-prefix width + the inputs' bytes + 4.
C7_TrailingBytesIgnored ==
    (kind = "BitcoinTransaction" /\ origin = "ext" /\ Decoded) =>
        res = Ok(val, 4 + C7_PrefixWidth(Len(val.inputs))
                        + C7_InputsLen(val.inputs) + 4)

C7_Witness ==
    /\ kind = "BitcoinTransaction"
    /\ origin = "ext"
    /\ Len(val.inputs) = 2
    /\ res.tag = "Ok"
    /\ res.used < Len(buf)

C9_Lower == <<"0", "1", "2", "3", "4", "5", "6", "7",
              "8", "9", "a", "b", "c", "d", "e", "f">>

C9_HexChars ==
    {"0", "1", "2", "3", "4", "5", "6", "7", "8", "9",
     "a", "b", "c", "d", "e", "f", "A", "B", "C", "D", "E", "F"}

\* the text is valid hex that decodes to exactly 32 bytes
C9_WellFormed(text) ==
    /\ Len(text) = 64
    /\ \A i \in 1..Len(text) : text[i] \in C9_HexChars

\* C9: a Txid serializes to the 64-character lowercase hex of its bytes in
\* stored order and deserializing that text gives the same 32 bytes; a text
\* that is not valid hex or does not decode to exactly 32 bytes (63 or 65
\* characters, say) fails with an error and yields no Txid.
C9_HexRoundTrip ==
    kind = "Txid" =>
        /\ origin = "enc" =>
            /\ Len(buf) = 64
            /\ \A i \in 1..32 :
                /\ buf[2 * i - 1] = C9_Lower[(val.raw[i] \div 16) + 1]
                /\ buf[2 * i] = C9_Lower[(val.raw[i] % 16) + 1]
        /\ (origin = "enc" /\ Decoded) => res.tag = "Ok" /\ res.value = val
        /\ (Decoded /\ ~C9_WellFormed(buf)) =>
                res.tag = "Err" /\ res.value = NoValue

C9_Witness ==
    /\ kind = "Txid"
    /\ origin = "enc"
    /\ val.raw[1] = 171
    /\ buf[1] = "a"
    /\ res.tag = "Ok"
    /\ res.value = val

\* C10: prefix determinism - a decode that returns Ok((V, n)) has n no
\* larger than the buffer, and any buffer with the same first n bytes
\* decodes to the same Ok((V, n)).
C10_PrefixDeterminism ==
    /\ (Binary /\ Decoded /\ res.tag = "Ok") => res.used <= Len(buf)
    /\ (origin = "tail" /\ Decoded) => res = prev

C10_Witness ==
    /\ kind = "Script"
    /\ origin = "tail"
    /\ res.tag = "Ok"
    /\ res = prev
    /\ Len(res.value.bytes) > 0
    /\ Len(buf) > res.used

====
